---- MODULE Spec2Model ----
(***************************************************************************)
(* Squat repetition counter of human_pose_estimation_upgraded.             *)
(*                                                                         *)
(*   utils.py       PoseAnalyzer: calculate_angle, detect_squat,           *)
(*                  process_frame, reset_counter                           *)
(*   app.py         VideoProcessor.recv, text_to_speech_worker, main       *)
(*   app_webrtc.py  the same video path, with the activity selection       *)
(*                  handed to the processor                                *)
(*                                                                         *)
(* Numbers.  Angles are kept in half degrees (Deg(160) is 160 degrees), so *)
(* that the mean of two whole-degree knee angles is exact.  A float that   *)
(* is not a number is the value NaN; every ordered comparison with it is   *)
(* false, as in Python.  A joint is a 2-D point given in polar form about  *)
(* the knee of its leg: len is its distance from the knee (0: the joint    *)
(* coincides with the knee) and dir its bearing in whole degrees.          *)
(* An optional value (Python's None or a value) is the empty set or a      *)
(* singleton.                                                              *)
(***************************************************************************)
EXTENDS Integers, Sequences, FiniteSets, TLC

VARIABLES
    analyzer,       \* PoseAnalyzer: squat_stage, squat_count, accuracy_score, feedback_message
    call,           \* the last PoseAnalyzer call: operation, path taken, mean knee angle measured, squat_count before it,
                    \* whether a knee angle of it came from a joint lying on the knee
    result,         \* what that call returned (pose_data of process_frame), or nothing
    script_pos,     \* how many leading angles of RepScript the updates since the fresh state have matched
    shallow_only,   \* every update since the fresh state had a mean knee angle >= 90
    angle_call,     \* the last direct call of calculate_angle: its three points and its result
    session_state,  \* st.session_state: squat_data, voice_enabled, last_feedback, feedback_queue
    video,          \* the video thread inside recv: the line it is at and its locals
    ui,             \* the script thread: the line of reset_counter it is at, the activity selected in the sidebar
    published_by,   \* the detect_squat call that built squat_data: the analyzer it started from, its angle
    displayed,      \* the snapshot the stats panel last read, with the call that built it
    tts_thread,     \* st.session_state.tts_thread: "none", "alive" or "dead"
    saved           \* the record last handed to save_workout_data and save_workout_to_firebase,
                    \* with the analyzer's count and score at that moment

vars == <<analyzer, call, result, script_pos, shallow_only, angle_call,
          session_state, video, ui, published_by, displayed, tts_thread, saved>>

analyzer_calls == <<call, result, script_pos, shallow_only>>
threads == <<video, ui, published_by, displayed, tts_thread, saved>>

-----------------------------------------------------------------------------
(* Bounds of the model *)

\* squat_count is an unbounded Python int; frames that would count past this are not fed
MaxReps == 7

-----------------------------------------------------------------------------
(* Values *)

None == {}
Some(x) == {x}

\* np.float64 nan: the result of 0.0 / 0.0 at utils.py line 54
NaN == -1

Deg(d) == 2 * d

\* Python float comparisons: false whenever an operand is nan
Gt(x, y) == x # NaN /\ x > y
Lt(x, y) == x # NaN /\ x < y
Ge(x, y) == x # NaN /\ x >= y
Le(x, y) == x # NaN /\ x <= y

Min(a, b) == IF a < b THEN a ELSE b
Max(a, b) == IF a > b THEN a ELSE b

Polar(l, d) == [len |-> l, dir |-> d]
Pole == Polar(0, 0)
\* a landmark whose coordinates are not numbers: np.array of it cannot be subtracted
Malformed == [len |-> 0, dir |-> 0, bad |-> TRUE]
IsNumeric(p) == "bad" \notin DOMAIN p

READY == "Ready to start!"
GREAT == "Great squat!"
PERFECT == "Perfect depth! Now stand up!"
KEEP_GOING == "Keep going down!"
PUSH_UP == "Push up!"
DEEPER == "Squat deeper for better results!"
REPOSITION == "Position yourself in camera view"

-----------------------------------------------------------------------------
(* PoseAnalyzer.__init__ *)

NewPoseAnalyzer ==
    [squat_stage |-> "up", squat_count |-> 0,
     feedback_message |-> READY, accuracy_score |-> 0]

-----------------------------------------------------------------------------
(* PoseAnalyzer.calculate_angle *)

\* a - b for the points the model feeds: the vertex at the pole, or a on b
Minus(a, b) ==
    CASE a = b -> Pole
      [] b = Pole -> a

\* np.linalg.norm
Norm(v) == v.len

\* np.degrees(np.arccos(np.clip(cos, -1, 1))) of two non-zero vectors: the
\* angle between their bearings, folded into [0, 180]
ArccosDegrees(ba, bc) ==
    LET d == IF ba.dir >= bc.dir THEN ba.dir - bc.dir ELSE bc.dir - ba.dir
        m == d % 360
    IN  Deg(IF m > 180 THEN 360 - m ELSE m)

\* calculate_angle with a slip: a zero-length vector answered with the
\* fallback of the exception handler
calculate_angle_fallback_180(point1, point2, point3) ==
    IF ~(IsNumeric(point1) /\ IsNumeric(point2) /\ IsNumeric(point3))
    THEN Deg(180)
    ELSE LET ba == Minus(point1, point2)
             bc == Minus(point3, point2)
         IN  IF Norm(ba) * Norm(bc) = 0
             THEN Deg(180)
             ELSE ArccosDegrees(ba, bc)

calculate_angle(point1, point2, point3) ==
    IF ~(IsNumeric(point1) /\ IsNumeric(point2) /\ IsNumeric(point3))
    THEN Deg(180)                       \* except Exception: return 180
    ELSE LET ba == Minus(point1, point2)
             bc == Minus(point3, point2)
         IN  IF Norm(ba) * Norm(bc) = 0
             THEN NaN                   \* 0.0 / 0.0 warns and yields nan; clip, arccos, degrees keep it
             ELSE ArccosDegrees(ba, bc)

-----------------------------------------------------------------------------
(* PoseAnalyzer.detect_squat *)

RequiredJoints ==
    {"LEFT_HIP", "LEFT_KNEE", "LEFT_ANKLE", "RIGHT_HIP", "RIGHT_KNEE", "RIGHT_ANKLE"}

\* squat_logic with a slip: a repetition counted on every frame in the up
\* zone, whatever the stage
squat_logic_counts_standing(self, avg_knee_angle) ==
    IF Gt(avg_knee_angle, Deg(160))
    THEN [self EXCEPT !.squat_count = @ + 1,
                      !.feedback_message = GREAT,
                      !.accuracy_score = Min(100, @ + 10),
                      !.squat_stage = "up"]
    ELSE IF Lt(avg_knee_angle, Deg(90))
    THEN [self EXCEPT !.feedback_message =
                          IF self.squat_stage = "up" THEN PERFECT ELSE @,
                      !.accuracy_score =
                          IF self.squat_stage = "up" THEN Min(100, @ + 5) ELSE @,
                      !.squat_stage = "down"]
    ELSE self

\* squat_logic with a slip: one threshold, no dead zone (down below 160)
squat_logic_single_threshold(self, avg_knee_angle) ==
    IF Gt(avg_knee_angle, Deg(160))
    THEN [self EXCEPT !.squat_count =
                          IF self.squat_stage = "down" THEN @ + 1 ELSE @,
                      !.accuracy_score =
                          IF self.squat_stage = "down" THEN Min(100, @ + 10) ELSE @,
                      !.squat_stage = "up"]
    ELSE IF Lt(avg_knee_angle, Deg(160))
    THEN [self EXCEPT !.accuracy_score =
                          IF self.squat_stage = "up" THEN Min(100, @ + 5) ELSE @,
                      !.squat_stage = "down"]
    ELSE self

\* squat_logic with a slip: the thresholds taken inclusive (>= 160, <= 90)
squat_logic_inclusive(self, avg_knee_angle) ==
    IF Ge(avg_knee_angle, Deg(160))
    THEN [self EXCEPT !.squat_count =
                          IF self.squat_stage = "down" THEN @ + 1 ELSE @,
                      !.accuracy_score =
                          IF self.squat_stage = "down" THEN Min(100, @ + 10) ELSE @,
                      !.squat_stage = "up"]
    ELSE IF Le(avg_knee_angle, Deg(90))
    THEN [self EXCEPT !.accuracy_score =
                          IF self.squat_stage = "up" THEN Min(100, @ + 5) ELSE @,
                      !.squat_stage = "down"]
    ELSE self

\* lines 105-124: the two thresholds and the dead zone between them
squat_logic(self, avg_knee_angle) ==
    IF Gt(avg_knee_angle, Deg(160))
    THEN LET counted ==
                 IF self.squat_stage = "down"
                 THEN [self EXCEPT !.squat_count = @ + 1,
                                   !.feedback_message = GREAT,
                                   !.accuracy_score = Min(100, @ + 10)]
                 ELSE self
         IN  [counted EXCEPT !.squat_stage = "up"]
    ELSE IF Lt(avg_knee_angle, Deg(90))
    THEN LET entered ==
                 IF self.squat_stage = "up"
                 THEN [self EXCEPT !.feedback_message = PERFECT,
                                   !.accuracy_score = Min(100, @ + 5)]
                 ELSE self
         IN  [entered EXCEPT !.squat_stage = "down"]
    ELSE IF Le(Deg(90), avg_knee_angle) /\ Le(avg_knee_angle, Deg(160))
    THEN IF self.squat_stage = "up" /\ Lt(avg_knee_angle, Deg(140))
         THEN [self EXCEPT !.feedback_message = KEEP_GOING]
         ELSE IF self.squat_stage = "down" /\ Gt(avg_knee_angle, Deg(120))
         THEN [self EXCEPT !.feedback_message = PUSH_UP]
         ELSE self
    ELSE self

\* form_feedback with a slip: the penalty without its floor
form_feedback_no_floor(self, avg_knee_angle) ==
    IF Gt(avg_knee_angle, Deg(140)) /\ self.squat_stage = "down"
    THEN [self EXCEPT !.feedback_message = DEEPER,
                      !.accuracy_score = @ - 1]
    ELSE self

\* lines 126-128: the form check, after the zone logic
form_feedback(self, avg_knee_angle) ==
    IF Gt(avg_knee_angle, Deg(140)) /\ self.squat_stage = "down"
    THEN [self EXCEPT !.feedback_message = DEEPER,
                      !.accuracy_score = Max(0, @ - 1)]
    ELSE self

\* round(x, 1): every angle of the model is a multiple of half a degree,
\* which one decimal holds exactly; nan stays nan
round1(x) == x

\* lines 130-136
snapshot(self, avg_knee_angle) ==
    [count |-> self.squat_count,
     stage |-> self.squat_stage,
     angle |-> round1(avg_knee_angle),
     feedback |-> self.feedback_message,
     accuracy |-> Min(100, Max(0, self.accuracy_score))]

\* lines 138-145
failure_snapshot(self) ==
    [count |-> self.squat_count,
     stage |-> self.squat_stage,
     angle |-> Deg(180),
     feedback |-> REPOSITION,
     accuracy |-> 0]

\* lines 96-101: both knee angles and their mean (nan if either is nan)
mean_knee_angle(landmarks) ==
    LET left_knee_angle ==
            calculate_angle(landmarks["LEFT_HIP"], landmarks["LEFT_KNEE"],
                            landmarks["LEFT_ANKLE"])
        right_knee_angle ==
            calculate_angle(landmarks["RIGHT_HIP"], landmarks["RIGHT_KNEE"],
                            landmarks["RIGHT_ANKLE"])
    IN  IF left_knee_angle = NaN \/ right_knee_angle = NaN
        THEN NaN
        ELSE (left_knee_angle + right_knee_angle) \div 2

\* update_state with a slip: the form check made before the zone logic
update_state_check_first(self, avg_knee_angle) ==
    squat_logic(form_feedback(self, avg_knee_angle), avg_knee_angle)

\* lines 105-128 run without interruption
update_state(self, avg_knee_angle) ==
    form_feedback(squat_logic(self, avg_knee_angle), avg_knee_angle)

\* lines 96-136: the mean knee angle, the state machine and the dictionary
\* returned
measure_and_update(self, landmarks) ==
    LET avg_knee_angle == mean_knee_angle(landmarks)
        after == update_state(self, avg_knee_angle)
    IN  [self |-> after, ret |-> snapshot(after, avg_knee_angle),
         angle |-> Some(avg_knee_angle), path |-> "updated"]

\* detect_squat with a slip: the failure path writes the accuracy 0 it
\* displays into the analyzer
detect_squat_failure_zeroes(self, landmarks) ==
    IF ~(RequiredJoints \subseteq DOMAIN landmarks)
    THEN [self |-> [self EXCEPT !.accuracy_score = 0],
          ret |-> failure_snapshot(self), angle |-> None, path |-> "failed"]
    ELSE measure_and_update(self, landmarks)

\* the analyzer after the call, the dictionary returned, and the mean knee
\* angle when one was measured; a landmark list without a required joint
\* raises at lines 81-94, before anything is written
detect_squat(self, landmarks) ==
    IF ~(RequiredJoints \subseteq DOMAIN landmarks)
    THEN [self |-> self, ret |-> failure_snapshot(self), angle |-> None, path |-> "failed"]
    ELSE measure_and_update(self, landmarks)

-----------------------------------------------------------------------------
(* PoseAnalyzer.process_frame *)

\* a frame: the pose the detector finds in it (None or the landmark list)
\* and the place where a library call raises while it is processed:
\*   "none"     nowhere
\*   "detect"   resize, cvtColor, pose.process or draw_landmarks (lines 161-192)
\*   "overlay"  cv2.putText (lines 200-205), after detect_squat has run
NoPoseData == [landmarks_detected |-> FALSE, squat_data |-> None]

process_frame(self, frame, activity_mode) ==
    IF frame.fault = "detect"
    THEN [self |-> self, pose_data |-> NoPoseData, angle |-> None, path |-> "error"]
    ELSE IF frame.pose = None
    THEN [self |-> self, pose_data |-> NoPoseData, angle |-> None, path |-> "no_pose"]
    ELSE IF activity_mode # "Squat Counter"
    THEN [self |-> self,
          pose_data |-> [landmarks_detected |-> TRUE, squat_data |-> None],
          angle |-> None, path |-> "free_pose"]
    ELSE LET landmarks == CHOOSE l \in frame.pose : TRUE
             d == detect_squat(self, landmarks)
         IN  IF frame.fault = "overlay"
             THEN [self |-> d.self, pose_data |-> NoPoseData, angle |-> d.angle,
                   path |-> "error_after_" \o d.path]
             ELSE [self |-> d.self,
                   pose_data |-> [landmarks_detected |-> TRUE, squat_data |-> Some(d.ret)],
                   angle |-> d.angle, path |-> d.path]

-----------------------------------------------------------------------------
(* PoseAnalyzer.reset_counter *)

\* reset_counter with a slip: accuracy_score forgotten
reset_counter_keeps_accuracy(self) ==
    [self EXCEPT !.squat_count = 0,
                 !.squat_stage = "up",
                 !.feedback_message = READY]

reset_counter(self) ==
    [self EXCEPT !.squat_count = 0,
                 !.squat_stage = "up",
                 !.accuracy_score = 0,
                 !.feedback_message = READY]

-----------------------------------------------------------------------------
(* initialize_state (app.py, app_webrtc.py) *)

\* squat_data is set by recv alone: absent (None) until then
NewSessionState ==
    [voice_enabled |-> FALSE,
     last_feedback |-> "",
     feedback_queue |-> <<>>,
     squat_data |-> None]

\* VideoProcessor.__init__ (activity_mode, frame_count) and the locals of
\* recv when no frame is in it
NewVideoThread ==
    [pc |-> "idle", activity_mode |-> "Free Pose", frame_count |-> 0,
     avg_knee_angle |-> NaN, ret |-> <<>>, entry |-> None]

-----------------------------------------------------------------------------
(* Inputs *)

ActivityModes == {"Free Pose", "Squat Counter"}

\* a leg is the hip and the ankle about the knee; Pole is a joint detected
\* on the knee itself.  The left leg sweeps the whole range, the right leg
\* is deep, nearly straight or degenerate: every mean from 80 to 170 degrees
\* in steps of 10 occurs
Leg(h, a) == [hip |-> h, ankle |-> a]
Thigh == Polar(1, 0)
LeftLegs ==
    {Leg(Thigh, Polar(1, d)) : d \in {80, 100, 120, 140, 160, 180}}
    \cup {Leg(Pole, Polar(1, 180)), Leg(Thigh, Pole)}
RightLegs ==
    {Leg(Thigh, Polar(1, d)) : d \in {80, 160}}
    \cup {Leg(Pole, Polar(1, 160)), Leg(Thigh, Pole)}

FullLandmarks ==
    { [j \in RequiredJoints |->
          CASE j = "LEFT_HIP" -> l.hip
            [] j = "LEFT_ANKLE" -> l.ankle
            [] j = "RIGHT_HIP" -> r.hip
            [] j = "RIGHT_ANKLE" -> r.ankle
            [] OTHER -> Pole] :
        l \in LeftLegs, r \in RightLegs }

\* a landmark list that stops before the ankles
ShortLandmarks ==
    { [j \in {"LEFT_HIP", "LEFT_KNEE", "RIGHT_HIP", "RIGHT_KNEE"} |-> Polar(1, 0)] }

Landmarks == FullLandmarks \cup ShortLandmarks

PoseFrames(poses) ==
    {[fault |-> f, pose |-> Some(l)] : f \in {"none", "overlay"}, l \in poses}

Frames ==
    {[fault |-> "detect", pose |-> None], [fault |-> "none", pose |-> None]}
    \cup PoseFrames(Landmarks)

\* a hip or an ankle detected on the knee of its leg: one of the two vectors
\* of that knee angle has length zero
Degenerate(landmarks) ==
    /\ RequiredJoints \subseteq DOMAIN landmarks
    /\ \/ landmarks["LEFT_HIP"] = landmarks["LEFT_KNEE"]
       \/ landmarks["LEFT_ANKLE"] = landmarks["LEFT_KNEE"]
       \/ landmarks["RIGHT_HIP"] = landmarks["RIGHT_KNEE"]
       \/ landmarks["RIGHT_ANKLE"] = landmarks["RIGHT_KNEE"]

\* the angle sequence of one full repetition
RepScript == <<170, 150, 100, 80, 100, 150, 170>>

NextScriptPos(pos, angle) ==
    IF pos = None THEN None
    ELSE LET k == CHOOSE x \in pos : TRUE
         IN  IF k < Len(RepScript) /\ angle = Deg(RepScript[k + 1])
             THEN Some(k + 1)
             ELSE None

-----------------------------------------------------------------------------
(* The analyzer driven one call at a time *)

Init ==
    /\ analyzer = NewPoseAnalyzer
    /\ call = [op |-> "__init__", path |-> "done", angle |-> None, count_before |-> 0,
               degenerate |-> FALSE]
    /\ result = None
    /\ script_pos = Some(0)
    /\ shallow_only = TRUE
    /\ angle_call = None
    /\ session_state = NewSessionState
    /\ video = NewVideoThread
    /\ ui = [pc |-> "idle", activity_mode |-> "Free Pose"]
    /\ published_by = None
    /\ displayed = None
    /\ tts_thread = "none"
    /\ saved = None

ProcessFrame ==
    \E frame \in Frames, activity_mode \in ActivityModes :
        \E r \in {process_frame(analyzer, frame, activity_mode)} :
            /\ r.self.squat_count <= MaxReps
            /\ analyzer' = r.self
            /\ call' = [op |-> "process_frame", path |-> r.path, angle |-> r.angle,
                        count_before |-> analyzer.squat_count,
                        degenerate |-> r.angle # None /\ \E l \in frame.pose : Degenerate(l)]
            /\ result' = Some(r.pose_data)
            /\ script_pos' = IF r.angle = None THEN script_pos
                             ELSE NextScriptPos(script_pos, CHOOSE a \in r.angle : TRUE)
            /\ shallow_only' = (shallow_only /\ \A a \in r.angle : Ge(a, Deg(90)))
            /\ UNCHANGED <<angle_call, session_state, threads>>

ResetCounter ==
    /\ analyzer' = reset_counter(analyzer)
    /\ call' = [op |-> "reset_counter", path |-> "done", angle |-> None,
                count_before |-> analyzer.squat_count, degenerate |-> FALSE]
    /\ result' = None
    /\ script_pos' = Some(0)
    /\ shallow_only' = TRUE
    /\ UNCHANGED <<angle_call, session_state, threads>>

Next == ProcessFrame \/ ResetCounter

Spec == Init /\ [][Next]_vars

-----------------------------------------------------------------------------
(* calculate_angle called on its own *)

AngleDirs == {0, 80, 90, 170, 180, 270, 350}
AnglePoints ==
    {Pole, Malformed} \cup {Polar(l, d) : l \in {1, 2}, d \in AngleDirs}

CalculateAngle ==
    \E point1 \in AnglePoints, point2 \in {Pole, Malformed}, point3 \in AnglePoints :
        /\ angle_call' = Some([point1 |-> point1, point2 |-> point2, point3 |-> point3,
                               angle |-> calculate_angle(point1, point2, point3)])
        /\ UNCHANGED <<analyzer, analyzer_calls, session_state, threads>>

SpecAngle == Init /\ [][CalculateAngle]_vars

-----------------------------------------------------------------------------
(* Properties *)

UpdatedNext == call'.angle # None
AngleOf(c) == CHOOSE a \in c.angle : TRUE

Snapshots == UNION {r.squat_data : r \in result}

\* C1: a detect_squat update adds exactly 1 to squat_count when the stage
\* before it is "down" and the mean knee angle is above 160 degrees, and
\* leaves squat_count alone otherwise; so the angles 170, 150, 100, 80,
\* 100, 150, 170 fed to a fresh analyzer end with squat_count = 1.
C1_RepCountedOncePerExcursion ==
    /\ [][UpdatedNext =>
            analyzer'.squat_count =
                IF analyzer.squat_stage = "down" /\ Gt(AngleOf(call'), Deg(160))
                THEN analyzer.squat_count + 1
                ELSE analyzer.squat_count]_vars
    /\ [](script_pos = Some(Len(RepScript)) => analyzer.squat_count = 1)

C1_Witness ==
    /\ script_pos = Some(Len(RepScript))
    /\ call.angle = Some(Deg(170))
    /\ analyzer.squat_count = 1
    /\ analyzer.feedback_message = GREAT

\* C2: while every update since the fresh state had a mean knee angle of
\* at least 90 degrees, squat_count is 0 and the stage is "up".
C2_NoCountWithoutDepth ==
    shallow_only => analyzer.squat_count = 0 /\ analyzer.squat_stage = "up"

C2_Witness ==
    /\ shallow_only
    /\ call.angle = Some(Deg(150))
    /\ analyzer.feedback_message = KEEP_GOING

\* C3: the stored accuracy_score and the accuracy of every returned
\* snapshot are within 0..100.
C3_AccuracyBounds ==
    /\ analyzer.accuracy_score \in 0..100
    /\ \A d \in Snapshots : d.accuracy \in 0..100

C3_Witness ==
    /\ analyzer.accuracy_score = 100
    /\ analyzer.feedback_message = GREAT
    /\ \E d \in Snapshots : d.accuracy = 100

\* C4: reset_counter leaves squat_count = 0, squat_stage = "up",
\* accuracy_score = 0 and feedback_message = "Ready to start!" whatever the
\* state before, and a second reset_counter changes nothing.
C4_Reset ==
    /\ call.op = "reset_counter" =>
           /\ analyzer.squat_count = 0
           /\ analyzer.squat_stage = "up"
           /\ analyzer.accuracy_score = 0
           /\ analyzer.feedback_message = READY
    /\ reset_counter(reset_counter(analyzer)) = reset_counter(analyzer)

C4_Witness ==
    /\ call.op = "reset_counter"
    /\ call.count_before > 0
    /\ analyzer = NewPoseAnalyzer

\* C5: a frame on which detect_squat takes its failure path, or in which no
\* pose is found, leaves squat_count, squat_stage and accuracy_score as they
\* were; the failure snapshot carries that count and stage, the feedback
\* "Position yourself in camera view" and accuracy 0.
C5_FailedFrameKeepsState ==
    [][call'.op = "process_frame" /\ call'.path \in {"failed", "no_pose"} =>
          /\ analyzer'.squat_count = analyzer.squat_count
          /\ analyzer'.squat_stage = analyzer.squat_stage
          /\ analyzer'.accuracy_score = analyzer.accuracy_score
          /\ call'.path = "failed" =>
                 \E d \in UNION {r.squat_data : r \in result'} :
                     /\ d.count = analyzer.squat_count
                     /\ d.stage = analyzer.squat_stage
                     /\ d.feedback = REPOSITION
                     /\ d.accuracy = 0]_vars

C5_Witness ==
    /\ call.path = "failed"
    /\ analyzer.squat_count > 0
    /\ analyzer.squat_stage = "down"
    /\ analyzer.accuracy_score > 0
    /\ \E d \in Snapshots : d.feedback = REPOSITION /\ d.accuracy = 0

\* C7: an update at exactly 160 degrees is in the transition zone (from
\* "down": no repetition, stage still "down"), an update at exactly 90
\* degrees too (from "up": stage still "up", no +5); the stage changes only
\* above 160 or below 90 degrees.
C7_BoundaryExactness ==
    [][UpdatedNext =>
          /\ AngleOf(call') \in {Deg(160), Deg(90)} =>
                 /\ analyzer'.squat_stage = analyzer.squat_stage
                 /\ analyzer'.squat_count = analyzer.squat_count
                 /\ analyzer'.accuracy_score <= analyzer.accuracy_score
          /\ analyzer'.squat_stage # analyzer.squat_stage =>
                 Gt(AngleOf(call'), Deg(160)) \/ Lt(AngleOf(call'), Deg(90))]_vars

C7_Witness ==
    /\ call.angle = Some(Deg(160))
    /\ analyzer.squat_stage = "down"
    /\ analyzer.feedback_message = DEEPER

\* C6: calculate_angle returns 180 degrees, and no NaN, whenever the first
\* or the third point lies on the vertex.
C6_DegenerateGives180 ==
    \A c \in angle_call :
        IsNumeric(c.point1) /\ IsNumeric(c.point2) /\ IsNumeric(c.point3)
        /\ (c.point1 = c.point2 \/ c.point3 = c.point2)
        => c.angle = Deg(180)

\* C10: a frame that process_frame ends through its exception handler
\* leaves squat_count, squat_stage, accuracy_score and feedback_message as
\* they were before the frame.
C10_ErrorFrameKeepsState ==
    [][call'.op = "process_frame"
       /\ call'.path \in {"error", "error_after_updated", "error_after_failed"}
       => analyzer' = analyzer]_vars

\* C11: in every update the form check acts on the state the zone logic
\* left: with a mean knee angle above 140 degrees and the stage "down" it
\* sets the feedback "Squat deeper for better results!" (over the "Push
\* up!" of the same update) and takes 1 from accuracy_score, not below 0,
\* leaving squat_count and squat_stage alone.  It acts exactly when the
\* angle is above 140 and at most 160 degrees and the stage before the
\* update is "down", and never on an update that counts a repetition.
C11_ShallowSquatCheck ==
    [][UpdatedNext =>
          LET a == AngleOf(call')
              zone == squat_logic(analyzer, a)
              fires == Gt(a, Deg(140)) /\ zone.squat_stage = "down"
          IN  /\ fires <=> Gt(a, Deg(140)) /\ Le(a, Deg(160)) /\ analyzer.squat_stage = "down"
              /\ fires =>
                     /\ analyzer'.feedback_message = DEEPER
                     /\ analyzer'.accuracy_score = Max(0, analyzer.accuracy_score - 1)
                     /\ analyzer'.squat_count = analyzer.squat_count
                     /\ analyzer'.squat_stage = "down"
              /\ ~fires => analyzer' = zone
              /\ analyzer'.squat_count > analyzer.squat_count =>
                     ~fires /\ analyzer'.feedback_message = GREAT]_vars

C11_Witness ==
    /\ call.path = "updated"
    /\ call.angle = Some(Deg(150))
    /\ analyzer.squat_stage = "down"
    /\ analyzer.feedback_message = DEEPER
    /\ analyzer.accuracy_score = 4

\* C12: an update in which a knee angle comes from a hip or an ankle lying
\* on the knee changes neither squat_stage nor squat_count, whatever the
\* other knee's angle and the stage.
C12_DegenerateNoTransition ==
    [][call'.op = "process_frame" /\ call'.degenerate =>
          /\ analyzer'.squat_stage = analyzer.squat_stage
          /\ analyzer'.squat_count = analyzer.squat_count]_vars

C12_Witness ==
    /\ call.op = "process_frame"
    /\ call.path = "updated"
    /\ call.degenerate
    /\ analyzer.squat_stage = "down"
    /\ analyzer.squat_count > 0

-----------------------------------------------------------------------------
(* Two threads on one PoseAnalyzer.                                        *)
(*                                                                         *)
(* The video thread runs recv -> process_frame -> detect_squat in squat    *)
(* mode; the script thread runs main: the stats panel and the Reset        *)
(* Counter button.  Nothing in the code serialises them: a step is one     *)
(* source line, a thread switch may fall between any two.                  *)
(***************************************************************************)

\* VideoProcessor.frame_count is unbounded; the video thread takes this many frames
MaxThreadFrames == 4

\* app.py 51: self.skip_frames = 2
skip_frames == 2

\* both legs alike, the knee angle being the bearing of the ankle
ThreadAngles == {80, 130, 150, 170}
ThreadLandmarks ==
    { [j \in RequiredJoints |->
          CASE j \in {"LEFT_HIP", "RIGHT_HIP"} -> Thigh
            [] j \in {"LEFT_ANKLE", "RIGHT_ANKLE"} -> Polar(1, d)
            [] OTHER -> Pole] : d \in ThreadAngles }

VideoAt(line) == video.pc = line
VideoGoto(line) == video' = [video EXCEPT !.pc = line]
VideoStep(line, next) ==
    /\ VideoAt(line)
    /\ VideoGoto(next)
VideoOnly ==
    UNCHANGED <<analyzer_calls, angle_call, session_state, ui, published_by, displayed, tts_thread, saved>>

\* app_webrtc.py 107 and 124-125: main builds the processor the stream will
\* use and hands it the activity selected in the sidebar
UiSelectActivity ==
    /\ video.pc = "idle" /\ video.frame_count = 0
    /\ \E activity_mode \in ActivityModes :
           /\ ui' = [ui EXCEPT !.activity_mode = activity_mode]
           /\ video' = [video EXCEPT !.activity_mode = activity_mode]
    /\ UNCHANGED <<analyzer, analyzer_calls, angle_call, session_state,
                   published_by, displayed, tts_thread, saved>>

\* a frame analyzed outside squat mode: process_frame never calls detect_squat
VideoFreePose ==
    /\ VideoAt("idle")
    /\ video.frame_count < MaxThreadFrames
    /\ (video.frame_count + 1) % skip_frames = 0
    /\ video.activity_mode # "Squat Counter"
    /\ video' = [video EXCEPT !.frame_count = @ + 1]
    /\ UNCHANGED analyzer
    /\ VideoOnly

\* app.py 56-58: every other frame is returned as it came
VideoSkip ==
    /\ VideoAt("idle")
    /\ video.frame_count < MaxThreadFrames
    /\ (video.frame_count + 1) % skip_frames # 0
    /\ video' = [video EXCEPT !.frame_count = @ + 1]
    /\ UNCHANGED analyzer
    /\ VideoOnly

\* app.py 53-60, utils.py 159-196 and 78-105: a frame with a pose is
\* analyzed; the angles are computed on locals and the zone is chosen
VideoRecv ==
    /\ VideoAt("idle")
    /\ video.frame_count < MaxThreadFrames
    /\ (video.frame_count + 1) % skip_frames = 0
    /\ video.activity_mode = "Squat Counter"
    /\ \E landmarks \in ThreadLandmarks :
        \E avg \in {mean_knee_angle(landmarks)} :
            video' = [video EXCEPT
                         !.pc = IF Gt(avg, Deg(160)) THEN "l106"
                                ELSE IF Lt(avg, Deg(90)) THEN "l114"
                                ELSE IF Le(Deg(90), avg) /\ Le(avg, Deg(160)) THEN "l120"
                                ELSE "l126",
                         !.frame_count = @ + 1,
                         !.avg_knee_angle = avg,
                         !.entry = Some(analyzer)]
    /\ UNCHANGED analyzer
    /\ VideoOnly

\* if self.squat_stage == "down":
Video106 ==
    /\ VideoStep("l106", IF analyzer.squat_stage = "down" THEN "l108" ELSE "l111")
    /\ UNCHANGED analyzer /\ VideoOnly

\* self.squat_count += 1
Video108 ==
    /\ VideoStep("l108", "l109")
    /\ analyzer' = [analyzer EXCEPT !.squat_count = @ + 1]
    /\ VideoOnly

\* self.feedback_message = "Great squat!"
Video109 ==
    /\ VideoStep("l109", "l110")
    /\ analyzer' = [analyzer EXCEPT !.feedback_message = GREAT]
    /\ VideoOnly

\* self.accuracy_score = min(100, self.accuracy_score + 10)
Video110 ==
    /\ VideoStep("l110", "l111")
    /\ analyzer' = [analyzer EXCEPT !.accuracy_score = Min(100, @ + 10)]
    /\ VideoOnly

\* self.squat_stage = "up"
Video111 ==
    /\ VideoStep("l111", "l126")
    /\ analyzer' = [analyzer EXCEPT !.squat_stage = "up"]
    /\ VideoOnly

\* if self.squat_stage == "up":
Video114 ==
    /\ VideoStep("l114", IF analyzer.squat_stage = "up" THEN "l115" ELSE "l117")
    /\ UNCHANGED analyzer /\ VideoOnly

\* self.feedback_message = "Perfect depth! Now stand up!"
Video115 ==
    /\ VideoStep("l115", "l116")
    /\ analyzer' = [analyzer EXCEPT !.feedback_message = PERFECT]
    /\ VideoOnly

\* self.accuracy_score = min(100, self.accuracy_score + 5)
Video116 ==
    /\ VideoStep("l116", "l117")
    /\ analyzer' = [analyzer EXCEPT !.accuracy_score = Min(100, @ + 5)]
    /\ VideoOnly

\* self.squat_stage = "down"
Video117 ==
    /\ VideoStep("l117", "l126")
    /\ analyzer' = [analyzer EXCEPT !.squat_stage = "down"]
    /\ VideoOnly

\* if self.squat_stage == "up" and avg_knee_angle < 140:
Video120 ==
    /\ VideoStep("l120", IF analyzer.squat_stage = "up" /\ Lt(video.avg_knee_angle, Deg(140))
                         THEN "l121" ELSE "l122")
    /\ UNCHANGED analyzer /\ VideoOnly

\* self.feedback_message = "Keep going down!"
Video121 ==
    /\ VideoStep("l121", "l126")
    /\ analyzer' = [analyzer EXCEPT !.feedback_message = KEEP_GOING]
    /\ VideoOnly

\* elif self.squat_stage == "down" and avg_knee_angle > 120:
Video122 ==
    /\ VideoStep("l122", IF analyzer.squat_stage = "down" /\ Gt(video.avg_knee_angle, Deg(120))
                         THEN "l123" ELSE "l126")
    /\ UNCHANGED analyzer /\ VideoOnly

\* self.feedback_message = "Push up!"
Video123 ==
    /\ VideoStep("l123", "l126")
    /\ analyzer' = [analyzer EXCEPT !.feedback_message = PUSH_UP]
    /\ VideoOnly

\* if avg_knee_angle > 140 and self.squat_stage == "down":
Video126 ==
    /\ VideoStep("l126", IF Gt(video.avg_knee_angle, Deg(140)) /\ analyzer.squat_stage = "down"
                         THEN "l127" ELSE "l131")
    /\ UNCHANGED analyzer /\ VideoOnly

\* self.feedback_message = "Squat deeper for better results!"
Video127 ==
    /\ VideoStep("l127", "l128")
    /\ analyzer' = [analyzer EXCEPT !.feedback_message = DEEPER]
    /\ VideoOnly

\* self.accuracy_score = max(0, self.accuracy_score - 1)
Video128 ==
    /\ VideoStep("l128", "l131")
    /\ analyzer' = [analyzer EXCEPT !.accuracy_score = Max(0, @ - 1)]
    /\ VideoOnly

\* the dictionary returned is built entry by entry, each reading one field
VideoRead(line, next, key, value) ==
    /\ VideoAt(line)
    /\ video' = [video EXCEPT !.pc = next, !.ret = Append(@, <<key, value>>)]
    /\ UNCHANGED analyzer /\ VideoOnly

\* 'count': self.squat_count,
Video131 == VideoRead("l131", "l132", "count", analyzer.squat_count)

\* 'stage': self.squat_stage, 'angle': round(avg_knee_angle, 1),
Video132 == VideoRead("l132", "l134", "stage", analyzer.squat_stage)

\* 'feedback': self.feedback_message,
Video134 == VideoRead("l134", "l135", "feedback", analyzer.feedback_message)

\* 'accuracy': min(100, max(0, self.accuracy_score))
Video135 ==
    VideoRead("l135", "publish", "accuracy", Min(100, Max(0, analyzer.accuracy_score)))

RetDict(ret, avg) ==
    [count |-> ret[1][2], stage |-> ret[2][2], angle |-> round1(avg),
     feedback |-> ret[3][2], accuracy |-> ret[4][2]]

\* app.py 66-67: st.session_state.squat_data = pose_data['squat_data']
VideoPublish ==
    /\ VideoAt("publish")
    /\ session_state' =
           [session_state EXCEPT
                !.squat_data = Some(RetDict(video.ret, video.avg_knee_angle))]
    /\ published_by' = Some([entry |-> CHOOSE e \in video.entry : TRUE,
                             avg_knee_angle |-> video.avg_knee_angle])
    /\ video' = [video EXCEPT !.pc = "idle", !.avg_knee_angle = NaN,
                               !.ret = <<>>, !.entry = None]
    /\ UNCHANGED <<analyzer, analyzer_calls, angle_call, ui, displayed, tts_thread, saved>>

UiOnly ==
    UNCHANGED <<analyzer_calls, angle_call, session_state, video, published_by, tts_thread, saved>>

\* app.py 117-126: the stats panel reads st.session_state.squat_data
UiShowStats ==
    /\ ui.pc = "idle"
    /\ session_state.squat_data # None
    /\ displayed' = {[data |-> d, by |-> b] : d \in session_state.squat_data, b \in published_by}
    /\ UNCHANGED <<analyzer, ui>>
    /\ UiOnly

UiWrite(line, next, after) ==
    /\ ui.pc = line
    /\ ui' = [ui EXCEPT !.pc = next]
    /\ analyzer' = after
    /\ UNCHANGED displayed
    /\ UiOnly

\* app.py 130-131, utils.py 215: self.squat_count = 0
UiReset215 == UiWrite("idle", "l216", [analyzer EXCEPT !.squat_count = 0])

\* self.squat_stage = "up"
UiReset216 == UiWrite("l216", "l217", [analyzer EXCEPT !.squat_stage = "up"])

\* self.accuracy_score = 0
UiReset217 == UiWrite("l217", "l218", [analyzer EXCEPT !.accuracy_score = 0])

\* self.feedback_message = "Ready to start!"; st.rerun()
UiReset218 == UiWrite("l218", "idle", [analyzer EXCEPT !.feedback_message = READY])

NextThreads ==
    \/ UiSelectActivity \/ VideoFreePose \/ VideoSkip \/ VideoRecv \/ Video106 \/ Video108 \/ Video109 \/ Video110 \/ Video111
    \/ Video114 \/ Video115 \/ Video116 \/ Video117
    \/ Video120 \/ Video121 \/ Video122 \/ Video123
    \/ Video126 \/ Video127 \/ Video128
    \/ Video131 \/ Video132 \/ Video134 \/ Video135 \/ VideoPublish
    \/ UiShowStats \/ UiReset215 \/ UiReset216 \/ UiReset217 \/ UiReset218

SpecThreads == Init /\ [][NextThreads]_vars

\* the four fields of the exercise state as a snapshot shows them
View(self) ==
    [count |-> self.squat_count, stage |-> self.squat_stage,
     feedback |-> self.feedback_message,
     accuracy |-> Min(100, Max(0, self.accuracy_score))]

ViewOf(d) ==
    [count |-> d.count, stage |-> d.stage, feedback |-> d.feedback, accuracy |-> d.accuracy]

\* the states a call of detect_squat that started from `entry` with mean
\* angle `avg` can stand between, in any order of that call and the resets
\* that overlap it: before the call, after the update, after a reset, after
\* the update of the reset state
CompleteStates(entry, avg) ==
    {entry, update_state(entry, avg), reset_counter(entry),
     update_state(reset_counter(entry), avg)}

-----------------------------------------------------------------------------
(* The application: recv frame by frame, the script runs of main and the   *)
(* text-to-speech worker.  recv is taken whole here: the queue is the only *)
(* object it shares with the worker, and queue.Queue is thread-safe.       *)
(***************************************************************************)

\* VideoProcessor.frame_count is unbounded; the stream delivers this many frames
MaxAppFrames == 60

\* app.py 34: queue.Queue() is built with the default maxsize
QueueMaxsize == 0

\* app.py 71: self.frame_count % 30
SpeechPeriod == 30

\* queue.Queue.full: a maxsize <= 0 means no limit
Full(q) == QueueMaxsize > 0 /\ Len(q) >= QueueMaxsize

AppLandmarks == {l \in ThreadLandmarks : mean_knee_angle(l) \in {Deg(80), Deg(130)}}
AppFrames == {[fault |-> "none", pose |-> None]} \cup PoseFrames(AppLandmarks)

\* app.py 66-77: the snapshot is published and, on every 30th frame, a
\* feedback that differs from the last one spoken is put on the queue
publish(ss, squat_data, frame_count) ==
    LET published == [ss EXCEPT !.squat_data = squat_data]
        feedback == (CHOOSE d \in squat_data : TRUE).feedback
    IN  IF squat_data = None THEN ss
        ELSE IF /\ ss.voice_enabled
                /\ feedback # ss.last_feedback
                /\ frame_count % SpeechPeriod = 0
        THEN IF Full(ss.feedback_queue)
             THEN published                         \* except queue.Full: pass
             ELSE [published EXCEPT !.feedback_queue = Append(@, feedback),
                                    !.last_feedback = feedback]
        ELSE published

\* recv with a slip: no frame is skipped
recv_analyzes_every_frame(vp, ss, self, frame) ==
    LET counted == [vp EXCEPT !.frame_count = @ + 1]
        r == process_frame(self, frame, vp.activity_mode)
    IN  [vp |-> counted,
         ss |-> IF r.pose_data.landmarks_detected
                THEN publish(ss, r.pose_data.squat_data, counted.frame_count)
                ELSE ss,
         self |-> r.self]

\* VideoProcessor.recv, app.py 53-83
recv(vp, ss, self, frame) ==
    LET counted == [vp EXCEPT !.frame_count = @ + 1]
        r == process_frame(self, frame, vp.activity_mode)
    IN  IF counted.frame_count % skip_frames # 0
        THEN [vp |-> counted, ss |-> ss, self |-> self]
        ELSE [vp |-> counted,
              ss |-> IF r.pose_data.landmarks_detected
                     THEN publish(ss, r.pose_data.squat_data, counted.frame_count)
                     ELSE ss,
              self |-> r.self]

AppOnly == UNCHANGED <<analyzer_calls, angle_call, ui, published_by, displayed, saved>>

Recv ==
    /\ video.frame_count < MaxAppFrames
    /\ \E frame \in AppFrames :
        \E r \in {recv(video, session_state, analyzer, frame)} :
            /\ video' = r.vp
            /\ session_state' = r.ss
            /\ analyzer' = r.self
    /\ UNCHANGED tts_thread
    /\ AppOnly

\* a script run: the module level starts the worker if voice feedback was
\* on when the run began (app.py 234-237), then main reads the toggle
\* (app.py 111)
ScriptRun ==
    /\ tts_thread' = IF session_state.voice_enabled /\ tts_thread # "alive"
                     THEN "alive" ELSE tts_thread
    /\ \E toggle \in BOOLEAN :
           session_state' = [session_state EXCEPT !.voice_enabled = toggle]
    /\ UNCHANGED <<analyzer, video>>
    /\ AppOnly

\* text_to_speech_worker, app.py 93-97: one message is taken and spoken
TtsGet ==
    /\ tts_thread = "alive"
    /\ session_state.feedback_queue # <<>>
    /\ session_state' = [session_state EXCEPT !.feedback_queue = Tail(@)]
    /\ UNCHANGED <<analyzer, video, tts_thread>>
    /\ AppOnly

\* app.py 88 or 96-97 raises: the worker prints and ends (app.py 100-101)
TtsDies ==
    /\ tts_thread = "alive"
    /\ tts_thread' = "dead"
    /\ UNCHANGED <<analyzer, video, session_state>>
    /\ AppOnly

NextApp == UiSelectActivity \/ Recv \/ ScriptRun \/ TtsGet \/ TtsDies

SpecApp == Init /\ [][NextApp]_vars

\* C8: the feedback queue has a fixed capacity that the pending messages
\* never exceed: whenever recv adds a message the queue stays within it
\* (on a full queue the message is dropped instead).
C8_BoundedDropOnFull ==
    [][Len(session_state'.feedback_queue) > Len(session_state.feedback_queue) =>
          QueueMaxsize > 0 /\ Len(session_state'.feedback_queue) <= QueueMaxsize]_vars

\* the queue holds a message for every 30th frame while no worker takes any
C8_QueueGrows ==
    /\ tts_thread # "alive"
    /\ Len(session_state.feedback_queue) = MaxAppFrames \div SpeechPeriod

-----------------------------------------------------------------------------
(* A workout session: the stream of frames through recv, the Reset Counter *)
(* and Save Workout buttons of main.  The buttons are those of app.py; the *)
(* activity reaches the processor as in app_webrtc.py (UiSelectActivity).  *)
(***************************************************************************)

\* VideoProcessor.frame_count is unbounded; a session delivers this many frames
MaxSessionFrames == 8

SessionFrames ==
    {[fault |-> "none", pose |-> None]}
    \cup PoseFrames(ThreadLandmarks \cup ShortLandmarks)

\* one call of recv on a frame drawn from `frames`; call records what became
\* of the frame: skipped, or the path process_frame took with it
RecvFrame(frames, limit) ==
    /\ video.frame_count < limit
    /\ \E frame \in frames :
        \E r \in {recv(video, session_state, analyzer, frame)},
           p \in {process_frame(analyzer, frame, video.activity_mode)} :
            /\ video' = r.vp
            /\ session_state' = r.ss
            /\ analyzer' = r.self
            /\ call' = IF (video.frame_count + 1) % skip_frames # 0
                       THEN [op |-> "recv", path |-> "skipped", angle |-> None,
                             count_before |-> analyzer.squat_count, degenerate |-> FALSE]
                       ELSE [op |-> "recv", path |-> p.path, angle |-> p.angle,
                             count_before |-> analyzer.squat_count, degenerate |-> FALSE]
    /\ UNCHANGED <<result, script_pos, shallow_only, angle_call, ui, published_by,
                   displayed, tts_thread, saved>>

RecvSession == RecvFrame(SessionFrames, MaxSessionFrames)

\* app.py 115 and 130-132: the button is drawn in squat mode only
ResetButton ==
    /\ ui.activity_mode = "Squat Counter"
    /\ ResetCounter

\* app.py 115 and 134-143: both stores are handed the count and the accuracy
\* of st.session_state.squat_data
SaveWorkout ==
    /\ ui.activity_mode = "Squat Counter"
    /\ \E squat_data \in session_state.squat_data :
        /\ squat_data.count > 0
        /\ saved' = Some([reps |-> squat_data.count,
                          accuracy |-> squat_data.accuracy,
                          squat_count |-> analyzer.squat_count,
                          accuracy_score |-> analyzer.accuracy_score])
    /\ UNCHANGED <<analyzer, analyzer_calls, angle_call, session_state, video, ui,
                   published_by, displayed, tts_thread>>

NextSession == UiSelectActivity \/ RecvSession \/ ResetButton \/ SaveWorkout

SpecSession == Init /\ [][NextSession]_vars

\* C15: recv counts every frame and analyzes those whose count is a
\* multiple of skip_frames = 2.  A skipped frame leaves the exercise state,
\* the published squat_data and the speech queue as they were; an analyzed
\* frame on which detect_squat measures an angle updates the state the
\* previous frames left, once, and its snapshot is the one published.
C15_FrameSampling ==
    [][video'.frame_count # video.frame_count =>
          /\ video'.frame_count = video.frame_count + 1
          /\ IF video'.frame_count % 2 # 0
             THEN /\ analyzer' = analyzer
                  /\ session_state' = session_state
             ELSE /\ call'.path \in {"updated", "error_after_updated"} =>
                         analyzer' = update_state(analyzer, AngleOf(call'))
                  /\ call'.path = "updated" =>
                         session_state'.squat_data =
                             Some(snapshot(analyzer', AngleOf(call')))
                  /\ call'.path \notin {"updated", "error_after_updated"} =>
                         analyzer' = analyzer]_vars

C15_Witness ==
    /\ call.op = "recv"
    /\ call.path = "skipped"
    /\ video.frame_count = 5
    /\ analyzer.squat_count = 1
    /\ \E d \in session_state.squat_data : d.count = 1 /\ d.feedback = GREAT

-----------------------------------------------------------------------------
(* app.py: the activity is selected in the sidebar and kept in a local of  *)
(* main; the stream builds its processor with video_processor_factory =    *)
(* VideoProcessor and main never writes to it.                             *)
(***************************************************************************)

\* app.py 110: activity_mode = st.selectbox(...)
SelectActivity ==
    /\ \E activity_mode \in ActivityModes :
           ui' = [ui EXCEPT !.activity_mode = activity_mode]
    /\ UNCHANGED <<analyzer, analyzer_calls, angle_call, session_state, video,
                   published_by, displayed, tts_thread, saved>>

RecvSampled == RecvFrame(AppFrames, MaxAppFrames)

NextAppPy == SelectActivity \/ RecvSampled \/ ScriptRun

SpecAppPy == Init /\ [][NextAppPy]_vars

\* C14: in app.py, while "Squat Counter" is selected in the sidebar, every
\* analyzed frame in which a pose is found is processed in squat mode:
\* detect_squat runs and a squat_data snapshot is published.
C14_ModeReachesAnalyzer ==
    [][/\ video'.frame_count # video.frame_count
       /\ ui.activity_mode = "Squat Counter"
       /\ call'.path \in {"free_pose", "updated", "failed"}
       => /\ call'.path \in {"updated", "failed"}
          /\ session_state'.squat_data # None]_vars

====
